---- MODULE Spec2Model ----
(***************************************************************************)
(* Selection controller of konva-selection (class KonvaSelection and the   *)
(* geometry helpers beside it).  One action per public operation and per   *)
(* event handler; each action runs the whole handler, every nested call    *)
(* included.                                                               *)
(*                                                                         *)
(* Coordinates are integers in grid units.  The stage transform is the     *)
(* identity, so a pointer position is already stage-local and a client     *)
(* rectangle is the entity's position and size.  The rendering library is  *)
(* outside the repository: attachTo is modelled as recording the target it *)
(* is given, the Subject as delivering to its listener inside next().      *)
(***************************************************************************)
EXTENDS Integers, Sequences, FiniteSets, TLC

\* ---------------------------------------------------------------- bounds

\* the demo scene holds three entities (for i = 1; i < 4)
NumEntities == 3
\* width and height of an entity, in grid units
EntitySize == 1
\* pointer positions range over 0..MaxX along x
MaxX == 2
\* drag-move frames per behaviour
MaxDragFrames == 2
\* callbacks the callers of the frame queue pass, and how many it holds at most
MaxCallbacks == 2
MaxQueue == 3
\* the helpers' arguments: coordinates in -MaxCoord..MaxCoord, sizes in 0..MaxExtent
MaxCoord == 1
MaxExtent == 1
\* decompose: scale factors in -MaxScale..MaxScale but 0, frame scales in 1..MaxFrameScale
MaxScale == 2
MaxFrameScale == 2
\* how far from its first place the handle takes an entity
MaxOffset == 1
\* how many nodes the list given to the constructor holds at most
MaxSeed == 3

Entities == 1..NumEntities

\* _id of the layer's children that are not entities
TransformerId == NumEntities + 1
BoundingId == NumEntities + 2

Point(x, y) == [x |-> x, y |-> y]

\* stage-local pointer positions: y = 1 is the upper edge of the odd entities,
\* y = 0 lies above them, on the lower edge of the even ones
PointerPositions == {Point(x, y) : x \in 0..MaxX, y \in {0, 1}}

\* how far the renderer moves a dragged entity in one frame
Deltas == {Point(1, 0), Point(0 - 1, 1)}

\* ------------------------------------------------------------- the state

VARIABLES
    nodes,        \* this.nodes: the ids of the Map, in insertion order
    transformer,  \* this.transformer and the node it is attached to
    bounding,     \* this.bounding and the groups alive in the layer
    selectBox,    \* this.selectBox
    selectAttrs,  \* this.selectAttrs: posStart, posNow, select
    oldPosition,  \* this.oldPosition
    dragTarget,   \* the entity the renderer is dragging (0: none yet)
    attrs,        \* the entities' local attributes (position)
    emitted,      \* what the change() listener observed during the last operation
    calls,        \* the calls made during the last operation
    lastOp,       \* the last operation or event handled
    dragFrames,   \* drag-move frames handled so far
    dragOrigin,   \* the entities' positions at the last dragstart
    dragCohort,   \* the entities selected without interruption since the last dragstart
    returned,     \* the array the last toArray() or clone() gave its caller
    queue,        \* the frame queue of Util
    frameRequests,\* animation-frame requests the browser has not served yet
    ran,          \* the callbacks run by the last animation frame, in order
    args,         \* the two arguments given to a geometry helper
    result        \* what the helper returned for them

vars == <<nodes, transformer, bounding, selectBox, selectAttrs, oldPosition,
          dragTarget, attrs, emitted, calls, lastOp, dragFrames, dragOrigin,
          dragCohort, returned, queue, frameRequests, ran, args, result>>

\* ------------------------------------------------------ values of fields

NoPoint == [set |-> FALSE, x |-> 0, y |-> 0]

SomePoint(p) == [set |-> TRUE, x |-> p.x, y |-> p.y]

\* what a transformer is attached to
NoNode == [kind |-> "none", id |-> 0]

UndefinedNode == [kind |-> "undefined", id |-> 0]

EntityNode(id) == [kind |-> "entity", id |-> id]

GroupNode == [kind |-> "group", id |-> BoundingId]

NullTransformer == [alive |-> FALSE, node |-> NoNode]

NullBounding == [set |-> FALSE, children |-> <<>>, alive |-> 0, x |-> 0, y |-> 0]

NullSelectBox == [alive |-> FALSE, x |-> 0, y |-> 0, width |-> 0, height |-> 0]

NoCalls == [attachTo |-> 0, createBounding |-> 0, createTransformer |-> 0,
            destroyTransformer |-> 0, setAttrs |-> <<>>, createBoundingEmpty |-> 0,
            createTransformerAlive |-> 0]

\* the entities of the scene, one grid cell apart along x; the even ones
\* stand higher, so that a pointer rectangle can lie on each side of an entity
InitAttrs ==
    [i \in Entities |-> Point(2 * EntitySize * (i - 1), IF i % 2 = 0 THEN 0 - EntitySize ELSE 1)]

\* ------------------------------------------------------ geometry helpers

\* the test with the second comparison left out
haveIntersectionOneSided(r1, r2) ==
    ~ (\/ r2.x > r1.x + r1.width
       \/ r2.y > r1.y + r1.height
       \/ r2.y + r2.height < r1.y)

\* the test with touching rectangles taken apart
haveIntersectionStrict(r1, r2) ==
    ~ (\/ r2.x >= r1.x + r1.width
       \/ r2.x + r2.width <= r1.x
       \/ r2.y >= r1.y + r1.height
       \/ r2.y + r2.height <= r1.y)

haveIntersection(r1, r2) ==
    ~ (\/ r2.x > r1.x + r1.width
       \/ r2.x + r2.width < r1.x
       \/ r2.y > r1.y + r1.height
       \/ r2.y + r2.height < r1.y)

Abs(n) == IF n < 0 THEN 0 - n ELSE n

\* the two ifs of reverse, one axis at a time: <<low, high>>
reverseAxis(v1, v2) ==
    IF v1 > v2
    THEN LET d == Abs(v1 - v2) IN <<v2, v2 + d>>
    ELSE <<v1, v2>>

\* reverse ordering the x axis only
reverseXOnly(r1, r2) ==
    LET xs == reverseAxis(r1.x, r2.x)
    IN [x1 |-> xs[1], y1 |-> r1.y, x2 |-> xs[2], y2 |-> r2.y]

reverse(r1, r2) ==
    LET xs == reverseAxis(r1.x, r2.x)
        ys == reverseAxis(r1.y, r2.y)
    IN [x1 |-> xs[1], y1 |-> ys[1], x2 |-> xs[2], y2 |-> ys[2]]

\* ------------------------------------------- the controller's operations
\* Each takes and returns the controller c: nodes, transformer, bounding,
\* attrs, emitted, calls.

has(c, id) == \E i \in 1..Len(c.nodes) : c.nodes[i] = id

\* Map.delete: the other keys keep their order
delete(ids, id) ==
    LET keep(v) == v # id IN SelectSeq(ids, keep)

\* selectionChange$.next(this.nodes): the listener sees the live Map now
next(c, op, id) ==
    [c EXCEPT !.emitted = Append(@, [op |-> op, node |-> id, nodes |-> c.nodes,
                                     transformer |-> c.transformer.alive])]

\* isGroup off by one: true for a single entity too
isGroupNonEmpty(c) == Len(c.nodes) > 0

isGroup(c) == Len(c.nodes) > 1

\* node.clone() with its back-reference; the handle and the container stand
\* at the origin
clone(c, id) ==
    IF id \in Entities
    THEN [originalIndex |-> id, x |-> c.attrs[id].x, y |-> c.attrs[id].y]
    ELSE [originalIndex |-> id, x |-> 0, y |-> 0]

\* createBounding leaving the previous container in the layer
createBoundingNoDestroy(c) ==
    [c EXCEPT !.bounding = [set |-> TRUE,
                            children |-> [i \in 1..Len(c.nodes) |-> clone(c, c.nodes[i])],
                            alive |-> c.bounding.alive + 1,
                            x |-> 0, y |-> 0],
              !.calls.createBounding = @ + 1,
              !.calls.createBoundingEmpty = IF c.nodes = <<>> THEN @ + 1 ELSE @]

\* calls.createBoundingEmpty counts the calls made while the map is empty
createBounding(c) ==
    LET destroyed == IF c.bounding.set THEN c.bounding.alive - 1 ELSE c.bounding.alive
    IN [c EXCEPT !.bounding = [set |-> TRUE,
                               children |-> [i \in 1..Len(c.nodes) |-> clone(c, c.nodes[i])],
                               alive |-> destroyed + 1,
                               x |-> 0, y |-> 0],
                 !.calls.createBounding = @ + 1,
                 !.calls.createBoundingEmpty = IF c.nodes = <<>> THEN @ + 1 ELSE @]

attachTo(c, node) ==
    [c EXCEPT !.transformer.node = node, !.calls.attachTo = @ + 1]

\* updateTransformer attaching the first entity whatever the size of the set
updateTransformerFirst(c) ==
    IF ~ c.transformer.alive
    THEN c
    ELSE attachTo(c, IF Len(c.nodes) = 0 THEN UndefinedNode ELSE EntityNode(c.nodes[1]))

\* updateTransformer rebuilding the container whatever the size of the set
updateTransformerContainer(c) ==
    IF ~ c.transformer.alive
    THEN c
    ELSE attachTo(createBounding(c), GroupNode)

updateTransformer(c) ==
    IF ~ c.transformer.alive
    THEN c
    ELSE IF ~ isGroup(c)
         THEN attachTo(c, IF Len(c.nodes) = 0 THEN UndefinedNode ELSE EntityNode(c.nodes[1]))
         ELSE attachTo(createBounding(c), GroupNode)

\* calls.createTransformerAlive counts the handles created while one is alive
createTransformer(c) ==
    [c EXCEPT !.transformer = [alive |-> TRUE, node |-> NoNode],
              !.calls.createTransformer = @ + 1,
              !.calls.createTransformerAlive = IF c.transformer.alive THEN @ + 1 ELSE @]

\* add with the notification left out
addSilent(c, id) ==
    IF ~ has(c, id)
    THEN LET c1 == [c EXCEPT !.nodes = Append(@, id)]
             c3 == IF ~ c1.transformer.alive THEN createTransformer(c1) ELSE c1
         IN updateTransformer(c3)
    ELSE c

\* add without the membership test: Map.set, notification and refresh every time
addUnguarded(c, id) ==
    LET c1 == IF has(c, id) THEN c ELSE [c EXCEPT !.nodes = Append(@, id)]
        c2 == next(c1, "add", id)
        c3 == IF ~ c2.transformer.alive THEN createTransformer(c2) ELSE c2
    IN updateTransformer(c3)

\* add with the notification sent before the Map is updated
addEmitFirst(c, id) ==
    IF ~ has(c, id)
    THEN LET c1 == next(c, "add", id)
             c2 == [c1 EXCEPT !.nodes = Append(@, id)]
             c3 == IF ~ c2.transformer.alive THEN createTransformer(c2) ELSE c2
         IN updateTransformer(c3)
    ELSE c

\* add creating a handle whether or not one exists
addNewHandle(c, id) ==
    IF ~ has(c, id)
    THEN LET c1 == [c EXCEPT !.nodes = Append(@, id)]
             c2 == next(c1, "add", id)
         IN updateTransformer(createTransformer(c2))
    ELSE c

\* add creating and attaching the handle before it notifies
addHandleFirst(c, id) ==
    IF ~ has(c, id)
    THEN LET c1 == [c EXCEPT !.nodes = Append(@, id)]
             c2 == IF ~ c1.transformer.alive THEN createTransformer(c1) ELSE c1
         IN next(updateTransformer(c2), "add", id)
    ELSE c

add(c, id) ==
    IF ~ has(c, id)
    THEN LET c1 == [c EXCEPT !.nodes = Append(@, id)]
             c2 == next(c1, "add", id)
             c3 == IF ~ c2.transformer.alive THEN createTransformer(c2) ELSE c2
         IN updateTransformer(c3)
    ELSE c

\* remove without the refresh of the handle
removeNoRefresh(c, id) ==
    next([c EXCEPT !.nodes = delete(@, id)], "remove", id)

remove(c, id) ==
    LET c1 == [c EXCEPT !.nodes = delete(@, id)]
        c2 == next(c1, "remove", id)
    IN IF c2.transformer.alive THEN updateTransformer(c2) ELSE c2

\* clear emptying the set and leaving the handle
clearKeepHandle(c) == [c EXCEPT !.nodes = <<>>]

clear(c) ==
    LET c1 == IF c.transformer.alive
              THEN [c EXCEPT !.transformer = NullTransformer,
                             !.calls.destroyTransformer = @ + 1]
              ELSE c
    IN [c1 EXCEPT !.nodes = <<>>]

\* ---------------------------------------------------------------- marquee

createSelectBox == [alive |-> TRUE, x |-> 0, y |-> 0, width |-> 0, height |-> 0]

\* startDrag setting the current point only
startDragNowOnly(sa, posIn) ==
    [sa EXCEPT !.posNow = SomePoint(posIn)]

startDrag(sa, posIn) ==
    [sa EXCEPT !.posStart = SomePoint(posIn), !.posNow = SomePoint(posIn)]

\* layer1.children at the time updateDrag reads it
children(c) ==
    [i \in Entities |-> i]
    \o (IF c.transformer.alive THEN <<TransformerId>> ELSE <<>>)
    \o (IF c.bounding.alive > 0 THEN <<BoundingId>> ELSE <<>>)

hasName(n) == n \in Entities

getClientRect(c, n) ==
    IF n \in Entities
    THEN [x |-> c.attrs[n].x, y |-> c.attrs[n].y, width |-> EntitySize, height |-> EntitySize]
    ELSE [x |-> 0, y |-> 0, width |-> 0, height |-> 0]

\* the loop body without the test of the name: any child that intersects is added
collideAnyChild(c, n, selectBoxRect) ==
    IF haveIntersection(getClientRect(c, n), selectBoxRect)
    THEN add(c, n)
    ELSE remove(c, n)

\* the loop body without its else branch: a child that does not intersect stays
collideKeepStale(c, n, selectBoxRect) ==
    IF haveIntersection(getClientRect(c, n), selectBoxRect) /\ hasName(n)
    THEN add(c, n)
    ELSE c

\* the body of the collision check loop, for one child
collide(c, n, selectBoxRect) ==
    IF haveIntersection(getClientRect(c, n), selectBoxRect) /\ hasName(n)
    THEN add(c, n)
    ELSE remove(c, n)

\* the collision check loop of updateDrag, from index i on
RECURSIVE collisionLoop(_, _, _, _)
collisionLoop(c, ns, i, selectBoxRect) ==
    IF i > Len(ns)
    THEN c
    ELSE collisionLoop(collide(c, ns[i], selectBoxRect), ns, i + 1, selectBoxRect)

selectBoxAttrs(posRect) ==
    [alive |-> TRUE, x |-> posRect.x1, y |-> posRect.y1,
     width |-> posRect.x2 - posRect.x1, height |-> posRect.y2 - posRect.y1]

updateDrag(c, box) ==
    collisionLoop(c, children(c), 1,
                  [x |-> box.x, y |-> box.y, width |-> box.width, height |-> box.height])

\* --------------------------------------------------------------- actions

Controller ==
    [nodes |-> nodes, transformer |-> transformer, bounding |-> bounding,
     attrs |-> attrs, emitted |-> <<>>, calls |-> NoCalls]

Commit(c) ==
    /\ nodes' = c.nodes
    /\ transformer' = c.transformer
    /\ bounding' = c.bounding
    /\ attrs' = c.attrs
    /\ emitted' = c.emitted
    /\ calls' = c.calls

\* an entity leaves the cohort of the drag when it leaves the selection
StillSelected(c) ==
    dragCohort' = {n \in dragCohort : has(c, n)}

\* an operation that ends the marquee as destroySelectBox does
NoPointerReset ==
    /\ selectAttrs' = [selectAttrs EXCEPT !.select = FALSE]
    /\ selectBox' = NullSelectBox

\* the operation does not touch the marquee
NoPointer == UNCHANGED <<selectBox, selectAttrs>>

NoDrag == UNCHANGED <<oldPosition, dragTarget, dragFrames, dragOrigin>>

Op(op, id, shift) == [op |-> op, node |-> id, shift |-> shift]

\* nothing is returned to a caller, the frame queue and the helpers are idle
NoReturn == [from |-> "none", live |-> FALSE, items |-> <<>>]

NoArgs == <<>>

NoResult == [fn |-> "none"]

NoCaller == UNCHANGED returned

NoFrame == UNCHANGED <<queue, frameRequests, ran>>

NoHelper == UNCHANGED <<args, result>>

\* the controller after new KonvaSelection(layer1)
InitSelection ==
    /\ nodes = <<>>
    /\ transformer = NullTransformer
    /\ bounding = NullBounding
    /\ selectBox = NullSelectBox
    /\ selectAttrs = [posStart |-> NoPoint, posNow |-> NoPoint, select |-> FALSE]
    /\ oldPosition = NoPoint
    /\ dragTarget = 0
    /\ attrs = InitAttrs
    /\ emitted = <<>>
    /\ calls = NoCalls
    /\ lastOp = Op("new", 0, FALSE)
    /\ dragFrames = 0
    /\ dragOrigin = InitAttrs
    /\ dragCohort = {}
    /\ returned = NoReturn

\* let queue = []
InitFrame ==
    /\ queue = <<>>
    /\ frameRequests = 0
    /\ ran = <<>>

InitHelper ==
    /\ args = NoArgs
    /\ result = NoResult

Init ==
    /\ InitSelection
    /\ InitFrame
    /\ InitHelper

\* ---- the public operations, called by the chrome between events

Add(n) ==
    LET c == add(Controller, n)
    IN /\ Commit(c)
       /\ StillSelected(c)
       /\ lastOp' = Op("add", n, FALSE)
       /\ NoCaller /\ NoFrame /\ NoHelper
       /\ NoPointer
       /\ NoDrag

Remove(n) ==
    LET c == remove(Controller, n)
    IN /\ Commit(c)
       /\ StillSelected(c)
       /\ lastOp' = Op("remove", n, FALSE)
       /\ NoCaller /\ NoFrame /\ NoHelper
       /\ NoPointer
       /\ NoDrag

Clear ==
    LET c == clear(Controller)
    IN /\ Commit(c)
       /\ StillSelected(c)
       /\ lastOp' = Op("clear", 0, FALSE)
       /\ NoCaller /\ NoFrame /\ NoHelper
       /\ NoPointer
       /\ NoDrag

\* ---- mousedown on the stage itself: the marquee starts at posIn

contains(r, p) ==
    /\ r.x <= p.x /\ p.x <= r.x + r.width
    /\ r.y <= p.y /\ p.y <= r.y + r.height

\* the target of a pointer event is the stage when no entity lies under posIn
targetIsStage(posIn) ==
    \A n \in Entities : ~ contains(getClientRect(Controller, n), posIn)

MouseDownStage(posIn) ==
    LET c == clear(Controller)
    IN /\ targetIsStage(posIn)
       /\ Commit(c)
       /\ StillSelected(c)
       /\ selectBox' = IF ~ selectBox.alive THEN createSelectBox ELSE selectBox
       /\ selectAttrs' = startDrag([selectAttrs EXCEPT !.select = TRUE], posIn)
       /\ lastOp' = Op("mousedown", 0, FALSE)
       /\ NoCaller /\ NoFrame /\ NoHelper
       /\ NoDrag

\* ---- mousedown on an entity, with or without the shift key

\* the handler without its clear()
mousedownEntityKeep(c, n, shiftKey) == add(c, n)

\* the handler clearing whatever the shift key and the membership
mousedownEntityReplace(c, n, shiftKey) == add(clear(c), n)

mousedownEntity(c, n, shiftKey) ==
    LET c0 == IF ~ shiftKey /\ ~ has(c, n) THEN clear(c) ELSE c
    IN add(c0, n)

MouseDownEntity(n, shiftKey) ==
    LET c == mousedownEntity(Controller, n, shiftKey)
    IN /\ Commit(c)
       /\ dragCohort' = IF ~ shiftKey /\ ~ has(Controller, n) THEN {} ELSE dragCohort
       /\ lastOp' = Op("mousedown", n, shiftKey)
       /\ NoCaller /\ NoFrame /\ NoHelper
       /\ NoPointer
       /\ NoDrag

\* ---- mousemove: updateDrag while the marquee is active, nothing otherwise

MouseMove(posIn) ==
    IF selectAttrs.select
    THEN LET sa == [selectAttrs EXCEPT !.posNow = SomePoint(posIn)]
             box == selectBoxAttrs(reverse(sa.posStart, sa.posNow))
             c == updateDrag(Controller, box)
         IN /\ Commit(c)
            /\ StillSelected(c)
            /\ selectAttrs' = sa
            /\ selectBox' = box
            /\ lastOp' = Op("mousemove", 0, FALSE)
            /\ NoCaller /\ NoFrame /\ NoHelper
            /\ NoDrag
    ELSE /\ Commit(Controller)
         /\ lastOp' = Op("mousemove", 0, FALSE)
         /\ NoCaller /\ NoFrame /\ NoHelper
         /\ UNCHANGED dragCohort
         /\ NoPointer
         /\ NoDrag

\* ---- mouseup: destroySelectBox

\* destroySelectBox resetting the flag and keeping the box
destroySelectBoxKeepBox(sa, box) ==
    [selectAttrs |-> [sa EXCEPT !.select = FALSE], selectBox |-> box]

\* the marquee after destroySelectBox
destroySelectBox(sa, box) ==
    IF sa.select
    THEN [selectAttrs |-> [sa EXCEPT !.select = FALSE], selectBox |-> NullSelectBox]
    ELSE [selectAttrs |-> sa, selectBox |-> box]

\* a handler that clears the selection when the pointer is released
mouseupClear(c) == clear(c)

\* what the handler does to the controller: destroySelectBox touches the
\* marquee only
mouseup(c) == c

MouseUp ==
    /\ Commit(mouseup(Controller))
    /\ LET m == destroySelectBox(selectAttrs, selectBox)
       IN /\ selectAttrs' = m.selectAttrs
          /\ selectBox' = m.selectBox
    /\ lastOp' = Op("mouseup", 0, FALSE)
    /\ NoCaller /\ NoFrame /\ NoHelper
    /\ dragTarget' = 0
    /\ dragOrigin' = InitAttrs
    /\ dragCohort' = {}
    /\ UNCHANGED <<oldPosition, dragFrames>>

\* ---- the context menu has been closed: contextTool.onClosed() calls
\* destroySelectBox

ContextClosed ==
    /\ Commit(Controller)
    /\ LET m == destroySelectBox(selectAttrs, selectBox)
       IN /\ selectAttrs' = m.selectAttrs
          /\ selectBox' = m.selectBox
    /\ lastOp' = Op("closed", 0, FALSE)
    /\ NoCaller /\ NoFrame /\ NoHelper
    /\ UNCHANGED dragCohort
    /\ NoDrag

\* ---- wheel

\* the handler without its refresh of the handle
wheelNoRefresh(c) == c

wheel(c) == updateTransformer(c)

Wheel ==
    LET c == wheel(Controller)
    IN /\ Commit(c)
       /\ lastOp' = Op("wheel", 0, FALSE)
       /\ NoCaller /\ NoFrame /\ NoHelper
       /\ UNCHANGED dragCohort
       /\ NoPointer
       /\ NoDrag

\* ---- dragstart of an entity.  The renderer starts a drag after the
\* mousedown on that entity, whose handler has put it in the selection, and
\* ends it when the button is released.  One drag per behaviour has frames.

DragStart(target) ==
    /\ dragTarget = 0
    /\ dragFrames = 0
    /\ has(Controller, target)
    /\ Commit(Controller)
    /\ oldPosition' = SomePoint(attrs[target])
    /\ dragTarget' = target
    /\ dragOrigin' = attrs
    /\ dragCohort' = {n \in Entities : has(Controller, n)}
    /\ lastOp' = Op("dragstart", target, FALSE)
    /\ NoCaller /\ NoFrame /\ NoHelper
    /\ UNCHANGED dragFrames
    /\ NoPointer

\* ---- dragmove: the renderer has moved the target by delta; the handler
\* moves every other selected node by the difference since the last frame

move(c, id, diffPos) ==
    [c EXCEPT !.attrs[id] = Point(@.x + diffPos.x, @.y + diffPos.y)]

\* the loop moving every entity of the layer but the target
moveOthersLayer(c, target, diffPos, i) ==
    [c EXCEPT !.attrs = [e \in Entities |->
                            IF e = target
                            THEN @[e]
                            ELSE Point(@[e].x + diffPos.x, @[e].y + diffPos.y)]]

RECURSIVE moveOthers(_, _, _, _)
moveOthers(c, target, diffPos, i) ==
    IF i > Len(c.nodes)
    THEN c
    ELSE moveOthers(IF c.nodes[i] = target THEN c ELSE move(c, c.nodes[i], diffPos),
                    target, diffPos, i + 1)

\* the handler moving the drag target as well
dragmoveAll(c, target, old) ==
    LET diffPos == Point(c.attrs[target].x - old.x, c.attrs[target].y - old.y)
    IN updateTransformer(moveOthers(c, 0, diffPos, 1))

dragmove(c, target, old) ==
    LET diffPos == Point(c.attrs[target].x - old.x, c.attrs[target].y - old.y)
    IN updateTransformer(moveOthers(c, target, diffPos, 1))

DragMove(delta) ==
    /\ dragTarget # 0
    /\ dragFrames < MaxDragFrames
    /\ LET dragged == move(Controller, dragTarget, delta)
           c == dragmove(dragged, dragTarget, oldPosition)
       IN /\ Commit(c)
          /\ oldPosition' = SomePoint(dragged.attrs[dragTarget])
    /\ dragFrames' = dragFrames + 1
    /\ lastOp' = Op("dragmove", dragTarget, FALSE)
    /\ NoCaller /\ NoFrame /\ NoHelper
    /\ UNCHANGED <<dragTarget, dragOrigin, dragCohort>>
    /\ NoPointer

\* selection, marquee and wheel events, the entities at rest
Next ==
    \/ \E n \in Entities : Add(n)
    \/ \E n \in Entities : Remove(n)
    \/ Clear
    \/ \E p \in PointerPositions : MouseDownStage(p)
    \/ \E n \in Entities, shiftKey \in BOOLEAN : MouseDownEntity(n, shiftKey)
    \/ \E p \in PointerPositions : MouseMove(p)
    \/ MouseUp
    \/ ContextClosed
    \/ Wheel

Spec == Init /\ [][Next]_vars

\* clicks, drags of entities, wheel events and clear(), no marquee
NextDrag ==
    \/ Clear
    \/ \E n \in Entities, shiftKey \in BOOLEAN : MouseDownEntity(n, shiftKey)
    \/ MouseUp
    \/ Wheel
    \/ \E n \in Entities : DragStart(n)
    \/ \E d \in Deltas : DragMove(d)

SpecDrag == Init /\ [][NextDrag]_vars

\* ------------------------------------ new KonvaSelection(layer, nodes)
\* The constructor called with a list of nodes, then the public operations
\* and wheel events.

\* the constructor keeping every item of the list
constructorAll(list) == list

\* the keys of this.nodes after the loop of the constructor: Map.set on a
\* key the Map holds keeps the key where it is
constructor(list) ==
    LET RECURSIVE set(_, _)
        set(ids, i) ==
            IF i > Len(list)
            THEN ids
            ELSE set(IF \E j \in 1..Len(ids) : ids[j] = list[i]
                     THEN ids
                     ELSE Append(ids, list[i]), i + 1)
    IN set(<<>>, 1)

\* the lists a caller may pass, duplicates included
Seeds == UNION {[1..k -> Entities] : k \in 0..MaxSeed}

InitSeed ==
    /\ args \in Seeds
    /\ nodes = constructor(args)
    /\ transformer = NullTransformer
    /\ bounding = NullBounding
    /\ selectBox = NullSelectBox
    /\ selectAttrs = [posStart |-> NoPoint, posNow |-> NoPoint, select |-> FALSE]
    /\ oldPosition = NoPoint
    /\ dragTarget = 0
    /\ attrs = InitAttrs
    /\ emitted = <<>>
    /\ calls = NoCalls
    /\ lastOp = Op("new", 0, FALSE)
    /\ dragFrames = 0
    /\ dragOrigin = InitAttrs
    /\ dragCohort = {}
    /\ returned = NoReturn
    /\ InitFrame
    /\ result = NoResult

NextSeed ==
    \/ \E n \in Entities : Add(n)
    \/ \E n \in Entities : Remove(n)
    \/ Clear
    \/ Wheel

SpecSeed == InitSeed /\ [][NextSeed]_vars

\* ------------------------------------------------- toArray() and clone()
\* The value handed to the caller: live tells whether it is the Map itself
\* (what the caller does to it is then done to the selection) or an array of
\* its own; an item is a reference to an entity of the layer or a copy,
\* which has no parent.

Reference(id) == [node |-> id, copy |-> FALSE, parent |-> "layer1"]

\* node.clone() without a container to go in
Copy(id) == [node |-> id, copy |-> TRUE, parent |-> "none"]

\* toArray handing out the collection it reads
toArrayLive(c) == [from |-> "toArray", live |-> TRUE, items |-> <<>>]

toArray(c) ==
    [from |-> "toArray", live |-> FALSE,
     items |-> [i \in 1..Len(c.nodes) |-> Reference(c.nodes[i])]]

\* clone() pushing the nodes themselves
cloneOutputShared(c) ==
    [from |-> "clone", live |-> FALSE,
     items |-> [i \in 1..Len(c.nodes) |-> Reference(c.nodes[i])]]

\* KonvaSelection.clone
cloneOutput(c) ==
    [from |-> "clone", live |-> FALSE,
     items |-> [i \in 1..Len(c.nodes) |-> Copy(c.nodes[i])]]

\* what the caller reads in the value it holds
ReturnedItems ==
    IF returned.live
    THEN [i \in 1..Len(nodes) |-> Reference(nodes[i])]
    ELSE returned.items

Front(seq) == SubSeq(seq, 1, Len(seq) - 1)

ToArray ==
    /\ Commit(Controller)
    /\ returned' = toArray(Controller)
    /\ lastOp' = Op("toArray", 0, FALSE)
    /\ UNCHANGED dragCohort
    /\ NoPointer
    /\ NoDrag
    /\ NoFrame /\ NoHelper

Clone ==
    /\ Commit(Controller)
    /\ returned' = cloneOutput(Controller)
    /\ lastOp' = Op("clone", 0, FALSE)
    /\ UNCHANGED dragCohort
    /\ NoPointer
    /\ NoDrag
    /\ NoFrame /\ NoHelper

\* the caller drops the last element of the array it was given
ReturnedPop ==
    /\ ReturnedItems # <<>>
    /\ IF returned.live
       THEN /\ Commit([Controller EXCEPT !.nodes = Front(@)])
            /\ UNCHANGED returned
       ELSE /\ Commit(Controller)
            /\ returned' = [returned EXCEPT !.items = Front(@)]
    /\ lastOp' = Op("pop", 0, FALSE)
    /\ UNCHANGED dragCohort
    /\ NoPointer
    /\ NoDrag
    /\ NoFrame /\ NoHelper

\* the public operations alone, called by the chrome
NextApi ==
    \/ \E n \in Entities : Add(n)
    \/ \E n \in Entities : Remove(n)
    \/ Clear
    \/ ToArray
    \/ Clone
    \/ ReturnedPop

SpecApi == Init /\ [][NextApi]_vars

\* ------------------------------------------------------- the frame queue
\* Util.requestAnimFrame and the function it hands to the browser.  The
\* frame queue f: queue, frameRequests, ran.

Callbacks == 1..MaxCallbacks

requestAnimFrame(f, callback) ==
    LET pushed == [f EXCEPT !.queue = Append(@, callback)]
    IN IF Len(pushed.queue) = 1
       THEN [pushed EXCEPT !.frameRequests = @ + 1]
       ELSE pushed

\* cb(): the callback runs; the ones in again ask for the next frame too
cb(f, callback, again) ==
    LET f1 == [f EXCEPT !.ran = Append(@, callback)]
    IN IF callback \in again THEN requestAnimFrame(f1, callback) ELSE f1

\* anims.forEach, from index i on
RECURSIVE forEachAnim(_, _, _, _)
forEachAnim(f, anims, i, again) ==
    IF i > Len(anims)
    THEN f
    ELSE forEachAnim(cb(f, anims[i], again), anims, i + 1, again)

\* the function given to requestAnimationFrame
animationFrame(f, again) ==
    forEachAnim([f EXCEPT !.queue = <<>>, !.ran = <<>>], f.queue, 1, again)

FrameQueue == [queue |-> queue, frameRequests |-> frameRequests, ran |-> ran]

CommitFrame(f) ==
    /\ queue' = f.queue
    /\ frameRequests' = f.frameRequests
    /\ ran' = f.ran

NoSelection ==
    UNCHANGED <<nodes, transformer, bounding, selectBox, selectAttrs, oldPosition,
                dragTarget, attrs, emitted, calls, dragFrames, dragOrigin,
                dragCohort, returned>>

RequestAnimFrame(callback) ==
    /\ Len(queue) < MaxQueue
    /\ CommitFrame(requestAnimFrame(FrameQueue, callback))
    /\ lastOp' = Op("requestAnimFrame", callback, FALSE)
    /\ NoSelection /\ NoHelper

\* the browser serves one of the outstanding requests
AnimationFrame(again) ==
    /\ frameRequests > 0
    /\ CommitFrame(animationFrame([FrameQueue EXCEPT !.frameRequests = @ - 1], again))
    /\ lastOp' = Op("frame", 0, FALSE)
    /\ NoSelection /\ NoHelper

NextFrame ==
    \/ \E callback \in Callbacks : RequestAnimFrame(callback)
    \/ \E again \in SUBSET Callbacks : AnimationFrame(again)

SpecFrame == Init /\ [][NextFrame]_vars

\* --------------------------------------------- the helpers on their own
\* haveIntersection and reverse applied to two rectangles drawn at the
\* start; reverse reads their corners x, y.

Coords == (0 - MaxCoord)..MaxCoord

Rects == [x : Coords, y : Coords, width : 0..MaxExtent, height : 0..MaxExtent]

InitGeometry ==
    /\ InitSelection
    /\ InitFrame
    /\ args \in Rects \X Rects
    /\ result = NoResult

HaveIntersection ==
    /\ result' = [fn |-> "haveIntersection", value |-> haveIntersection(args[1], args[2])]
    /\ lastOp' = Op("haveIntersection", 0, FALSE)
    /\ UNCHANGED args
    /\ NoSelection /\ NoFrame

Reverse ==
    /\ result' = [fn |-> "reverse", value |-> reverse(args[1], args[2])]
    /\ lastOp' = Op("reverse", 0, FALSE)
    /\ UNCHANGED args
    /\ NoSelection /\ NoFrame

NextGeometry ==
    \/ HaveIntersection
    \/ Reverse

SpecGeometry == InitGeometry /\ [][NextGeometry]_vars

\* ------------------------------------------------------------- decompose
\* Numbers are fractions n/d in lowest terms, d > 0.  Angles are multiples of
\* 90 degrees, where sine and cosine are 0, 1 or -1, the square roots taken
\* are those of perfect squares and acos and atan are exact; rotation is kept
\* in degrees, the unit the function returns.

RECURSIVE GCD(_, _)
GCD(m, n) == IF n = 0 THEN m ELSE GCD(n, m % n)

Rat(n, d) ==
    LET g == GCD(Abs(n), Abs(d))
        sn == IF d < 0 THEN 0 - n ELSE n
    IN [n |-> sn \div g, d |-> Abs(d) \div g]

Whole(k) == [n |-> k, d |-> 1]

\* a / b for fractions
RatDiv(p, q) == Rat(p.n * q.d, p.d * q.n)

RatNeg(p) == [n |-> 0 - p.n, d |-> p.d]

RatSub(p, q) == Rat(p.n * q.d - q.n * p.d, p.d * q.d)

\* Math.sqrt of a perfect square
Sqrt(v) == CHOOSE r \in 0..v : r * r = v

\* Math.acos at -1, 0 and 1, in degrees
Acos(q) ==
    CASE q = Whole(1) -> Whole(0)
      [] q = Whole(0) -> Whole(90)
      [] q = Whole(0 - 1) -> Whole(180)

\* Math.atan at 0
Atan(q) ==
    CASE q = Whole(0) -> Whole(0)

Cos(deg) ==
    CASE deg % 360 = 0 -> 1
      [] deg % 360 = 90 -> 0
      [] deg % 360 = 180 -> 0 - 1
      [] deg % 360 = 270 -> 0

Sin(deg) == Cos(deg + 270)

\* the decomposition without the correction for the layer's position and scale
decomposeNoFrame(mat, layer) ==
    LET a == mat[1]
        b == mat[2]
        c == mat[3]
        d == mat[4]
        e == mat[5]
        f == mat[6]
        delta == a * d - b * c
        r == Sqrt(a * a + b * b)
        s == Sqrt(c * c + d * d)
        res == [x |-> Whole(e), y |-> Whole(f), rotation |-> Whole(0),
                scaleX |-> Whole(0), scaleY |-> Whole(0),
                skewX |-> Whole(0), skewY |-> Whole(0)]
    IN IF a # 0 \/ b # 0
       THEN [res EXCEPT
               !.rotation = IF b > 0 THEN Acos(Rat(a, r)) ELSE RatNeg(Acos(Rat(a, r))),
               !.scaleX = Whole(r),
               !.scaleY = Rat(delta, r),
               !.skewX = Atan(Rat(a * c + b * d, r * r))]
       ELSE IF c # 0 \/ d # 0
            THEN [res EXCEPT
                    !.rotation = RatSub(Whole(90), IF d > 0 THEN Acos(Rat(0 - c, s))
                                                          ELSE RatNeg(Acos(Rat(c, s)))),
                    !.scaleX = Rat(delta, s),
                    !.scaleY = Whole(s),
                    !.skewX = Whole(0),
                    !.skewY = Atan(Rat(a * c + b * d, s * s))]
            ELSE res

\* the decomposition giving the zero matrix the scale of the identity
decomposeZeroUnit(mat, layer) ==
    LET a == mat[1]
        b == mat[2]
        c == mat[3]
        d == mat[4]
        e == mat[5]
        f == mat[6]
        delta == a * d - b * c
        r == Sqrt(a * a + b * b)
        s == Sqrt(c * c + d * d)
        res == [x |-> Rat(e - layer.x, layer.scaleX),
                y |-> Rat(f - layer.y, layer.scaleY),
                rotation |-> Whole(0),
                scaleX |-> Whole(0), scaleY |-> Whole(0),
                skewX |-> Whole(0), skewY |-> Whole(0)]
    IN IF a # 0 \/ b # 0
       THEN [res EXCEPT
               !.rotation = IF b > 0 THEN Acos(Rat(a, r)) ELSE RatNeg(Acos(Rat(a, r))),
               !.scaleX = Rat(r, layer.scaleX),
               !.scaleY = RatDiv(Rat(delta, r), Whole(layer.scaleY)),
               !.skewX = Atan(Rat(a * c + b * d, r * r))]
       ELSE IF c # 0 \/ d # 0
            THEN [res EXCEPT
                    !.rotation = RatSub(Whole(90), IF d > 0 THEN Acos(Rat(0 - c, s))
                                                          ELSE RatNeg(Acos(Rat(c, s)))),
                    !.scaleX = RatDiv(Rat(delta, s), Whole(layer.scaleX)),
                    !.scaleY = Rat(s, layer.scaleY),
                    !.skewX = Whole(0),
                    !.skewY = Atan(Rat(a * c + b * d, s * s))]
            ELSE [res EXCEPT !.scaleX = Whole(1), !.scaleY = Whole(1)]

\* layer: the layer's absolute position x, y and absolute scale scaleX, scaleY
decompose(mat, layer) ==
    LET a == mat[1]
        b == mat[2]
        c == mat[3]
        d == mat[4]
        e == mat[5]
        f == mat[6]
        delta == a * d - b * c
        r == Sqrt(a * a + b * b)
        s == Sqrt(c * c + d * d)
        res == [x |-> Rat(e - layer.x, layer.scaleX),
                y |-> Rat(f - layer.y, layer.scaleY),
                rotation |-> Whole(0),
                scaleX |-> Whole(0), scaleY |-> Whole(0),
                skewX |-> Whole(0), skewY |-> Whole(0)]
    IN IF a # 0 \/ b # 0
       THEN [res EXCEPT
               !.rotation = IF b > 0 THEN Acos(Rat(a, r)) ELSE RatNeg(Acos(Rat(a, r))),
               !.scaleX = Rat(r, layer.scaleX),
               !.scaleY = RatDiv(Rat(delta, r), Whole(layer.scaleY)),
               !.skewX = Atan(Rat(a * c + b * d, r * r))]
       ELSE IF c # 0 \/ d # 0
            THEN [res EXCEPT
                    !.rotation = RatSub(Whole(90), IF d > 0 THEN Acos(Rat(0 - c, s))
                                                          ELSE RatNeg(Acos(Rat(c, s)))),
                    !.scaleX = RatDiv(Rat(delta, s), Whole(layer.scaleX)),
                    !.scaleY = Rat(s, layer.scaleY),
                    !.skewX = Whole(0),
                    !.skewY = Atan(Rat(a * c + b * d, s * s))]
            ELSE res

\* the absolute matrix [a, b, c, d, e, f] of a node with local position,
\* rotation and scale n (no skew) in a layer at position and scale layer
getMatrix(n, layer) ==
    <<layer.scaleX * n.scaleX * Cos(n.rotation),
      layer.scaleY * n.scaleX * Sin(n.rotation),
      0 - layer.scaleX * n.scaleY * Sin(n.rotation),
      layer.scaleY * n.scaleY * Cos(n.rotation),
      layer.scaleX * n.x + layer.x,
      layer.scaleY * n.y + layer.y>>

Scales == ((0 - MaxScale)..MaxScale) \ {0}

\* the stage is zoomed by one factor on both axes
Layers ==
    {[x |-> p[1], y |-> p[2], scaleX |-> k, scaleY |-> k] :
        p \in {<<0, 0>>, <<1, 0 - 1>>}, k \in 1..MaxFrameScale}

LocalAttrs ==
    [x : Coords, y : Coords, rotation : {0, 90, 180, 270}, scaleX : Scales, scaleY : Scales]

InitDecompose ==
    /\ InitSelection
    /\ InitFrame
    /\ args \in LocalAttrs \X Layers
    /\ result = NoResult

Decompose ==
    /\ result.fn = "none"
    /\ result' = [fn |-> "decompose",
                  value |-> decompose(getMatrix(args[1], args[2]), args[2])]
    /\ lastOp' = Op("decompose", 0, FALSE)
    /\ UNCHANGED args
    /\ NoSelection /\ NoFrame

NextDecompose == Decompose

SpecDecompose == InitDecompose /\ [][NextDecompose]_vars

\* decompose applied to a matrix given by its six numbers: those on which the
\* square roots, acos and atan of the function are exact, the matrix of zeros
\* and the matrices whose first column is zero among them

Matrices ==
    {m \in [1..6 -> (0 - MaxScale)..MaxScale] :
        /\ m[1] = 0 \/ m[2] = 0
        /\ (m[1] # 0 \/ m[2] # 0) => m[1] * m[3] + m[2] * m[4] = 0
        /\ (m[1] = 0 /\ m[2] = 0) => (m[3] = 0 \/ m[4] = 0)
        /\ m[5] \in {0, 1}
        /\ m[6] \in {0, 1}}

InitMatrix ==
    /\ InitSelection
    /\ InitFrame
    /\ args \in Matrices \X Layers
    /\ result = NoResult

DecomposeMatrix ==
    /\ result.fn = "none"
    /\ result' = [fn |-> "decompose", value |-> decompose(args[1], args[2])]
    /\ lastOp' = Op("decompose", 0, FALSE)
    /\ UNCHANGED args
    /\ NoSelection /\ NoFrame

NextMatrix == DecomposeMatrix

SpecMatrix == InitMatrix /\ [][NextMatrix]_vars

\* ------------------------------------------- the handle's transform event
\* The library changes the attributes of the attached node, then fires
\* 'transform' on the handle; the handler of createTransformer runs.

\* this.layer.getLayer(): the stage at rest
Layer1 == [x |-> 0, y |-> 0, scaleX |-> 1, scaleY |-> 1]

\* child.getAbsoluteTransform().getMatrix() for a proxy of the container
getAbsoluteMatrix(c, child) ==
    getMatrix([x |-> c.bounding.x + child.x, y |-> c.bounding.y + child.y,
               rotation |-> 0, scaleX |-> 1, scaleY |-> 1], Layer1)

\* node.setAttrs(a): the position is kept, the other attributes come back as
\* rotation 0 and scale 1
setAttrs(c, id, a) ==
    [c EXCEPT !.attrs[id] = Point(a.x.n \div a.x.d, a.y.n \div a.y.d),
              !.calls.setAttrs = Append(@, id)]

RECURSIVE transformLoop(_, _, _)
transformLoop(c, group, i) ==
    IF i > Len(group)
    THEN c
    ELSE LET child == group[i]
         IN transformLoop(IF has(c, child.originalIndex)
                          THEN setAttrs(c, child.originalIndex,
                                        decompose(getAbsoluteMatrix(c, child), Layer1))
                          ELSE c,
                          group, i + 1)

\* the 'transform' handler: the attached node is the container, or an entity,
\* a shape, which has no children: group.children.toArray() throws and the
\* handler ends there
transform(c) ==
    IF c.transformer.node = GroupNode
    THEN transformLoop(c, c.bounding.children, 1)
    ELSE c

\* the handle moving the node it is attached to
manipulate(c, delta) ==
    IF c.transformer.node = GroupNode
    THEN [c EXCEPT !.bounding.x = @ + delta.x, !.bounding.y = @ + delta.y]
    ELSE move(c, c.transformer.node.id, delta)

WithinOffset(c) ==
    \A e \in Entities :
        /\ Abs(c.attrs[e].x - InitAttrs[e].x) <= MaxOffset
        /\ Abs(c.attrs[e].y - InitAttrs[e].y) <= MaxOffset

Transform(delta) ==
    /\ transformer.alive
    /\ transformer.node.kind \in {"entity", "group"}
    /\ LET c == transform(manipulate(Controller, delta))
       IN /\ WithinOffset(c)
          /\ Commit(c)
    /\ lastOp' = Op("transform", 0, FALSE)
    /\ NoCaller /\ NoFrame /\ NoHelper
    /\ UNCHANGED dragCohort
    /\ NoPointer
    /\ NoDrag

\* clicks and shift-clicks, and the handle in use
NextTransform ==
    \/ \E n \in Entities, shiftKey \in BOOLEAN : MouseDownEntity(n, shiftKey)
    \/ \E d \in Deltas : Transform(d)

SpecTransform == Init /\ [][NextTransform]_vars

\* ----------------------------------------------------------- properties

Range(ids) == {ids[i] : i \in 1..Len(ids)}

Min(a, b) == IF a < b THEN a ELSE b

Max(a, b) == IF a < b THEN b ELSE a

\* the handle is attached to a real target: an entity or the container
Attached == transformer.alive /\ transformer.node.kind \in {"entity", "group"}

C2_MutationNotifies ==
    [][nodes' # nodes =>
         /\ emitted' # <<>>
         /\ emitted'[Len(emitted')].nodes = nodes']_vars

\* C3: add(e) of an entity that is not selected makes the set one larger,
\* keeps every other member in its place, and emits exactly one notification,
\* whose set holds e.
C3_AddAbsent ==
    [][\A n \in Entities :
         (lastOp' = Op("add", n, FALSE) /\ n \notin Range(nodes)) =>
             /\ Len(nodes') = Len(nodes) + 1
             /\ SubSeq(nodes', 1, Len(nodes)) = nodes
             /\ Range(nodes') = Range(nodes) \cup {n}
             /\ Len(emitted') = 1
             /\ n \in Range(emitted'[1].nodes)]_vars

\* add(e) has just put a second entity into the set and notified once
C3_Witness ==
    /\ lastOp.op = "add"
    /\ Len(nodes) = 2
    /\ nodes[2] = lastOp.node
    /\ Len(emitted) = 1

\* C4: add(e) of an entity that is already selected changes nothing: the
\* set, the handle and its target, and the container stay as they are, no
\* notification is emitted, nothing is attached and nothing rebuilt.
C4_AddPresentNoOp ==
    [][\A n \in Entities :
         (lastOp' = Op("add", n, FALSE) /\ n \in Range(nodes)) =>
             /\ UNCHANGED <<nodes, transformer, bounding>>
             /\ emitted' = <<>>
             /\ calls' = NoCalls]_vars

\* add(e) has just been called on a member of a two-entity selection
C4_Witness ==
    /\ lastOp.op = "add"
    /\ lastOp.node \in Range(nodes)
    /\ emitted = <<>>
    /\ Len(nodes) = 2
    /\ transformer.node = GroupNode

\* C5: remove(e) of an entity that is not selected changes nothing: the set
\* stays as it is, no notification is emitted, the handle is not attached
\* again and the container is not rebuilt.
C5_RemoveAbsentNoOp ==
    [][\A n \in Entities :
         (lastOp' = Op("remove", n, FALSE) /\ n \notin Range(nodes)) =>
             /\ nodes' = nodes
             /\ emitted' = <<>>
             /\ calls'.attachTo = 0
             /\ calls'.createBounding = 0]_vars

\* the rectangle spanned by the two corners of the marquee
MarqueeX1 == Min(selectAttrs.posStart.x, selectAttrs.posNow.x)

MarqueeX2 == Max(selectAttrs.posStart.x, selectAttrs.posNow.x)

MarqueeY1 == Min(selectAttrs.posStart.y, selectAttrs.posNow.y)

MarqueeY2 == Max(selectAttrs.posStart.y, selectAttrs.posNow.y)

\* entity n and the marquee overlap or touch on both axes
UnderMarquee(n) ==
    /\ attrs[n].x <= MarqueeX2 /\ MarqueeX1 <= attrs[n].x + EntitySize
    /\ attrs[n].y <= MarqueeY2 /\ MarqueeY1 <= attrs[n].y + EntitySize

\* C6: after a pointer-move handled while the marquee is active, the
\* selection set is exactly the set of entities whose bounding rectangle
\* intersects the current marquee rectangle.
C6_MarqueeExact ==
    (lastOp.op = "mousemove" /\ selectAttrs.select) =>
        Range(nodes) = {n \in Entities : UnderMarquee(n)}

\* a move has just shrunk the selection to entity 1, entity 2 lying outside
\* the rectangle now, the container of an earlier pair still in the layer
C6_Witness ==
    /\ lastOp.op = "mousemove"
    /\ selectAttrs.select
    /\ nodes = <<1>>
    /\ ~ UnderMarquee(2)
    /\ bounding.set
    /\ Len(bounding.children) = 2
    /\ \E i \in 1..Len(emitted) : emitted[i].op = "remove" /\ emitted[i].node = 2

\* C7: during a drag of a selected entity, every entity selected since the
\* drag started stands at its position at drag-start plus the displacement
\* of the dragged entity since then.
C7_GroupMove ==
    (dragTarget # 0 /\ dragTarget \in dragCohort) =>
        \A n \in dragCohort :
            /\ attrs[n].x - dragOrigin[n].x = attrs[dragTarget].x - dragOrigin[dragTarget].x
            /\ attrs[n].y - dragOrigin[n].y = attrs[dragTarget].y - dragOrigin[dragTarget].y

\* three selected entities after two frames of a drag that moved the target
C7_Witness ==
    /\ lastOp.op = "dragmove"
    /\ dragFrames = 2
    /\ dragTarget \in dragCohort
    /\ Cardinality(dragCohort) = 3
    /\ attrs[dragTarget] # dragOrigin[dragTarget]

\* C8: a pointer-down on an entity e that is not selected, the shift key not
\* held, leaves the selection set equal to exactly {e}, with the handle
\* attached to e.
C8_ClickReplaces ==
    [][\A n \in Entities :
         (lastOp' = Op("mousedown", n, FALSE) /\ n \notin Range(nodes)) =>
             /\ nodes' = <<n>>
             /\ transformer'.alive
             /\ transformer'.node = EntityNode(n)]_vars

\* a plain click on entity 3 has just replaced a selection of two others
C8_Witness ==
    /\ lastOp = Op("mousedown", 3, FALSE)
    /\ nodes = <<3>>
    /\ calls.destroyTransformer = 1
    /\ bounding.set
    /\ Len(bounding.children) = 2

\* C9: a pointer-down on an entity e with the shift key held, or with e
\* already selected, leaves the selection set equal to the previous set
\* united with {e}, the previous members in their order.
C9_ShiftClickKeeps ==
    [][\A n \in Entities, shiftKey \in BOOLEAN :
         (lastOp' = Op("mousedown", n, shiftKey) /\ (shiftKey \/ n \in Range(nodes))) =>
             /\ Range(nodes') = Range(nodes) \cup {n}
             /\ SubSeq(nodes', 1, Len(nodes)) = nodes]_vars

\* a marquee selected entities 1 and 2, the pointer was released, and a
\* shift-click on entity 3 has made the selection three large
C9_Witness ==
    /\ lastOp = Op("mousedown", 3, TRUE)
    /\ nodes = <<1, 2, 3>>
    /\ selectAttrs.posStart.set
    /\ ~ selectAttrs.select
    /\ Len(emitted) = 1

\* C10: every notification is delivered inside the call that caused it, and
\* the set its listener observes already reflects the mutation: it holds the
\* added entity, it lacks the removed one, and after add() or remove() the
\* set last observed is the set the call leaves.
C10_NotificationConsistent ==
    /\ \A i \in 1..Len(emitted) :
          /\ emitted[i].op = "add" => emitted[i].node \in Range(emitted[i].nodes)
          /\ emitted[i].op = "remove" => emitted[i].node \notin Range(emitted[i].nodes)
    /\ (lastOp.op \in {"add", "remove"} /\ emitted # <<>>) =>
          emitted[Len(emitted)].nodes = nodes

\* one marquee move has removed entity 1 and then entity 2 from a pair: the
\* listener saw <<2>> and then the empty set
C10_Witness ==
    /\ lastOp.op = "mousemove"
    /\ Len(emitted) >= 2
    /\ emitted[1] = [op |-> "remove", node |-> 1, nodes |-> <<2>>, transformer |-> TRUE]
    /\ emitted[2] = [op |-> "remove", node |-> 2, nodes |-> <<>>, transformer |-> TRUE]

C12_ProxiesMatchSelection ==
    bounding.set =>
        /\ Len(bounding.children) = Len(nodes)
        /\ calls.createBounding > 0 =>
              \A i \in 1..Len(bounding.children) :
                  bounding.children[i] = clone(Controller, nodes[i])

\* C13: a pointer-up never changes the selection set, whether a marquee is
\* active or not; it ends the marquee, notifies nobody and leaves the handle
\* as it is.
C13_MouseUpKeepsSelection ==
    [][lastOp'.op = "mouseup" =>
         /\ nodes' = nodes
         /\ transformer' = transformer
         /\ emitted' = <<>>
         /\ ~ selectAttrs'.select]_vars

\* the pointer has been released over a marquee that had selected entities
\* 1 and 2: the marquee is gone, the pair is selected
C13_Witness ==
    /\ lastOp.op = "mouseup"
    /\ selectAttrs.posStart.set
    /\ selectAttrs.posStart # selectAttrs.posNow
    /\ ~ selectAttrs.select
    /\ ~ selectBox.alive
    /\ nodes = <<1, 2>>

\* C14: a wheel event leaves the selection set and every entity's position
\* unchanged and emits no notification; when a handle exists it is attached
\* again, once, to the target the set calls for, and when none exists nothing
\* is attached.
C14_WheelRefreshesOnly ==
    [][lastOp'.op = "wheel" =>
         /\ nodes' = nodes
         /\ attrs' = attrs
         /\ emitted' = <<>>
         /\ transformer'.alive = transformer.alive
         /\ calls'.attachTo = (IF transformer.alive THEN 1 ELSE 0)
         /\ (transformer.alive /\ Len(nodes) = 1) =>
               transformer'.node = EntityNode(nodes[1])
         /\ (transformer.alive /\ Len(nodes) > 1) =>
               /\ transformer'.node = GroupNode
               /\ calls'.createBounding = 1
               /\ \A i \in 1..Len(nodes) :
                     bounding'.children[i] = clone(Controller, nodes[i])]_vars

\* a wheel event during a drag of three selected entities: the container
\* has been rebuilt from the positions the drag has given them
C14_Witness ==
    /\ lastOp.op = "wheel"
    /\ Len(nodes) = 3
    /\ dragFrames > 0
    /\ attrs # InitAttrs
    /\ calls.attachTo = 1
    /\ calls.createBounding = 1
    /\ transformer.node = GroupNode
    /\ \A i \in 1..3 : bounding.children[i] = clone(Controller, nodes[i])

\* how many times v occurs in the sequence
Count(seq, v) == Cardinality({i \in 1..Len(seq) : seq[i] = v})

\* C15: at most one animation-frame request is outstanding at any time, no
\* callback is held twice by the frame queue, and an animation frame runs
\* every callback passed since the last one exactly once, however many
\* times it was passed.
C15_FrameCoalesced ==
    [][/\ frameRequests' <= 1
       /\ \A callback \in Callbacks : Count(queue', callback) <= 1
       /\ lastOp'.op = "frame" =>
             \A callback \in Range(queue) : Count(ran', callback) = 1]_vars

\* C16: isGroup() returns true if and only if the selection set holds more
\* than one entity; the handle is therefore attached to the container when,
\* and only when, the set held more than one entity at the last refresh.
C16_IsGroupIffSeveral ==
    /\ isGroup(Controller) <=> Cardinality(Range(nodes) \cap Entities) > 1
    /\ calls.attachTo > 0 =>
          (transformer.node = GroupNode <=> Cardinality(Range(nodes) \cap Entities) > 1)

\* remove() has just left one entity of a pair: isGroup() is false and the
\* handle went from the container to that entity
C16_Witness ==
    /\ lastOp.op = "remove"
    /\ Len(nodes) = 1
    /\ ~ isGroup(Controller)
    /\ calls.attachTo = 1
    /\ transformer.node = EntityNode(nodes[1])
    /\ bounding.set
    /\ Len(bounding.children) = 2

\* C17: toArray() gives the selected entities in insertion order and leaves
\* the selection set as it is; what the caller then does to the array does
\* not change the set, and add(), remove() and clear() do not change an
\* array already given.
C17_ToArraySnapshot ==
    [][/\ lastOp'.op = "toArray" =>
             /\ nodes' = nodes
             /\ ReturnedItems' = [i \in 1..Len(nodes) |-> Reference(nodes[i])]
       /\ lastOp'.op = "pop" => nodes' = nodes
       /\ lastOp'.op \in {"add", "remove", "clear"} =>
             ReturnedItems' = ReturnedItems]_vars

\* an array of two was given, the caller dropped one element of it and
\* clear() then emptied the set: the array still holds the other
C17_Witness ==
    /\ lastOp.op = "clear"
    /\ returned.from = "toArray"
    /\ Len(ReturnedItems) = 1
    /\ nodes = <<>>
    /\ Len(bounding.children) = 2

\* C18: clone() gives one copy per selected entity, in insertion order, each
\* without a parent, and leaves the selection set, the handle, the container,
\* the layer's children and the entities as they are, with no notification.
C18_CloneDetachedCopies ==
    [][lastOp'.op = "clone" =>
         /\ Len(ReturnedItems') = Len(nodes)
         /\ \A i \in 1..Len(nodes) : ReturnedItems'[i] = Copy(nodes[i])
         /\ UNCHANGED <<nodes, transformer, bounding, attrs>>
         /\ children(Controller)' = children(Controller)
         /\ emitted' = <<>>
         /\ calls' = NoCalls]_vars

\* clone() has just copied a selection of three, entity 2 first
C18_Witness ==
    /\ lastOp.op = "clone"
    /\ nodes = <<2, 1, 3>>
    /\ returned.from = "clone"
    /\ Len(returned.items) = 3
    /\ returned.items[1] = Copy(2)
    /\ transformer.node = GroupNode

\* C19: for all rectangles A and B of the domain, the intersection test of
\* A with B gives what the test of B with A gives.
C19_IntersectCommutes ==
    result.fn = "haveIntersection" =>
        result.value = haveIntersection(args[2], args[1])

\* the test has found two rectangles that share one corner point to intersect
C19_Witness ==
    /\ result.fn = "haveIntersection"
    /\ result.value
    /\ args[1].width = 1 /\ args[1].height = 1
    /\ args[2].x = args[1].x + 1
    /\ args[2].y = args[1].y + 1

\* C20: for all corner points p1 and p2, reverse gives x1 the smaller and x2
\* the larger of the two x, y1 the smaller and y2 the larger of the two y;
\* so x1 <= x2, y1 <= y2, width and height are not negative, and the corners
\* given in the other order span the same rectangle.
C20_ReverseMinMax ==
    result.fn = "reverse" =>
        /\ result.value.x1 = Min(args[1].x, args[2].x)
        /\ result.value.x2 = Max(args[1].x, args[2].x)
        /\ result.value.y1 = Min(args[1].y, args[2].y)
        /\ result.value.y2 = Max(args[1].y, args[2].y)
        /\ result.value.x1 <= result.value.x2
        /\ result.value.y1 <= result.value.y2
        /\ selectBoxAttrs(result.value).width >= 0
        /\ selectBoxAttrs(result.value).height >= 0
        /\ result.value = reverse(args[2], args[1])

\* the first corner lay right of and below the second: both axes were swapped
C20_Witness ==
    /\ result.fn = "reverse"
    /\ args[1].x > args[2].x
    /\ args[1].y > args[2].y
    /\ result.value.x1 = args[2].x
    /\ result.value.y2 = args[1].y

\* a whole number of turns
FullTurns(q) == q.d = 1 /\ q.n % 360 = 0

Recovered ==
    [x |-> result.value.x.n, y |-> result.value.y.n,
     rotation |-> result.value.rotation.n + 360,
     scaleX |-> result.value.scaleX.n, scaleY |-> result.value.scaleY.n]

C22_MouseDownStage ==
    [][\A p \in PointerPositions :
         MouseDownStage(p) =>
             /\ nodes' = <<>>
             /\ ~ transformer'.alive
             /\ emitted' = <<>>
             /\ selectAttrs'.select
             /\ selectBox'.alive
             /\ selectAttrs'.posStart = SomePoint(p)
             /\ selectAttrs'.posNow = SomePoint(p)]_vars

\* a pointer-down on the empty canvas at (2, 1) has just cleared a selection
\* and destroyed its handle
C22_Witness ==
    /\ lastOp = Op("mousedown", 0, FALSE)
    /\ calls.destroyTransformer = 1
    /\ nodes = <<>>
    /\ bounding.set
    /\ selectAttrs.select
    /\ selectAttrs.posStart = SomePoint(Point(2, 1))
    /\ selectAttrs.posNow = SomePoint(Point(2, 1))

\* the container holds a proxy of every selected entity, in order, as the
\* entity is now
FreshContainer ==
    /\ bounding.set
    /\ bounding.children = [i \in 1..Len(nodes) |-> clone(Controller, nodes[i])]

\* C23: after every add or remove that leaves a handle in existence (called
\* by the chrome, by a click or by a marquee move), the handle is attached to
\* the one selected entity when the set holds exactly one, and to a container
\* rebuilt from the current selection when it holds more than one.
C23_AttachTarget ==
    (lastOp.op \in {"add", "remove", "mousedown", "mousemove"} /\ transformer.alive) =>
        /\ Len(nodes) = 1 => transformer.node = EntityNode(nodes[1])
        /\ Len(nodes) > 1 => (transformer.node = GroupNode /\ FreshContainer)

\* remove() has just taken entity 1 out of a selection of three: the handle
\* is on a container rebuilt for the two that stay
C23_Witness ==
    /\ lastOp = Op("remove", 1, FALSE)
    /\ nodes = <<2, 3>>
    /\ calls.createBounding = 1
    /\ transformer.node = GroupNode
    /\ FreshContainer

\* C24: on each manipulation event of the handle every selected entity
\* receives exactly one attribute write, computed by decompose from the
\* absolute transform of its proxy (of the entity itself when it is the one
\* attached), and no entity outside the selection set is written.
C24_TransformWrites ==
    lastOp.op = "transform" =>
        \A e \in Entities :
            Count(calls.setAttrs, e) = (IF e \in Range(nodes) THEN 1 ELSE 0)

\* C25: in every reachable state every proxy of the live container carries
\* the back-reference of an entity that is in the selection set: once remove()
\* or clear() has dropped an entity, no live container holds a proxy of it.
C25_NoStaleProxies ==
    (bounding.set /\ bounding.alive > 0) =>
        \A i \in 1..Len(bounding.children) :
            bounding.children[i].originalIndex \in Range(nodes)

\* the marquee is in progress before the step and is not after it: its
\* flag is reset or its box is discarded
MarqueeEnds ==
    /\ selectAttrs.select
    /\ (~ selectAttrs'.select \/ ~ selectBox'.alive)

\* C26: an in-progress marquee ends only through a pointer-up: no other
\* event or operation (wheel, add, remove, clear, a click on an entity,
\* closing the context menu) resets its flag or discards its box.
C26_OnlyMouseUpEndsMarquee ==
    [][MarqueeEnds => lastOp'.op = "mouseup"]_vars

\* C26 as the program has it: a pointer-up and the closing of the context
\* menu end the marquee, nothing else does.
C26_MouseUpOrCloseEndsMarquee ==
    [][MarqueeEnds => lastOp'.op \in {"mouseup", "closed"}]_vars

\* remove() has run on a selection of two while the marquee that made it is
\* still in progress
C26_Witness ==
    /\ lastOp = Op("remove", 3, FALSE)
    /\ selectAttrs.select
    /\ selectBox.alive
    /\ selectBox.width > 0
    /\ nodes = <<1, 2>>

\* C27: the marquee box exists exactly while the flag is set; it comes into
\* existence only by a pointer-down on the empty canvas; a pointer-up leaves
\* the flag reset and the box discarded; a pointer-move while no marquee is
\* in progress changes neither the selection set nor the handle.
C27_BoxWhileMarqueeing ==
    [][/\ selectBox'.alive <=> selectAttrs'.select
       /\ (~ selectBox.alive /\ selectBox'.alive) => lastOp' = Op("mousedown", 0, FALSE)
       /\ lastOp'.op = "mouseup" => (~ selectAttrs'.select /\ ~ selectBox'.alive)
       /\ (lastOp'.op = "mousemove" /\ ~ selectAttrs.select) =>
              /\ nodes' = nodes
              /\ transformer' = transformer
              /\ bounding' = bounding
              /\ emitted' = <<>>]_vars

\* a pointer-move after the pointer-up that ended a marquee, the selection
\* the marquee made and its handle in place
C27_Witness ==
    /\ lastOp.op = "mousemove"
    /\ ~ selectAttrs.select
    /\ ~ selectBox.alive
    /\ selectAttrs.posStart.set
    /\ Len(nodes) = 2
    /\ transformer.node = GroupNode

\* C28: when the handle refresh runs while the selection set is empty (after
\* a remove() that empties the set, or on a wheel event) nothing is attached:
\* attachTo is not called, the handle is not on an undefined target, and no
\* container is built.
C28_EmptyAttachSkipped ==
    (lastOp.op \in {"remove", "wheel"} /\ nodes = <<>>) =>
        /\ calls.attachTo = 0
        /\ calls.createBounding = 0
        /\ transformer.node # UndefinedNode

\* C29: a marquee rectangle of zero area (zero width or zero height, the
\* start point equal to the current point included) selects nothing: after
\* the pointer-move that produces it the selection set is empty.
C29_ZeroAreaSelectsNothing ==
    (/\ lastOp.op = "mousemove"
     /\ selectAttrs.select
     /\ (selectBox.width = 0 \/ selectBox.height = 0)) => nodes = <<>>

\* C30: in every state reached through clicks, shift-clicks and marquee
\* moves, every member of the selection set carries the name 'entity': the
\* handle and the container, children of the working layer too, are never
\* members.
C30_OnlyEntitiesSelected ==
    \A i \in 1..Len(nodes) : hasName(nodes[i])

\* a marquee move whose box holds the origin, where the handle and the
\* container stand, both in the layer since before the move: entity 1 alone
\* is selected
C30_Witness ==
    /\ lastOp.op = "mousemove"
    /\ selectAttrs.select
    /\ contains(selectBox, Point(0, 0))
    /\ transformer.alive
    /\ calls.createTransformer = 0
    /\ bounding.alive > 0
    /\ calls.createBounding = 0
    /\ nodes = <<1>>

\* the grid points the rectangles of the domain can hold
GridPoints ==
    {Point(x, y) : x \in (0 - MaxCoord)..(MaxCoord + MaxExtent),
                   y \in (0 - MaxCoord)..(MaxCoord + MaxExtent)}

\* C31: the intersection test is true exactly when neither rectangle lies
\* entirely to one side of the other on either axis, that is when the two
\* rectangles, edges and corners included, have a point in common; a
\* rectangle of non-negative width and height intersects itself.
C31_IntersectsIffCommonPoint ==
    result.fn = "haveIntersection" =>
        /\ result.value <=>
               \E p \in GridPoints : contains(args[1], p) /\ contains(args[2], p)
        /\ args[1] = args[2] => result.value

\* the test has found two rectangles that share one edge only to intersect
C31_Witness ==
    /\ result.fn = "haveIntersection"
    /\ result.value
    /\ args[1].width = 1 /\ args[1].height = 1
    /\ args[2].width = 1 /\ args[2].height = 1
    /\ args[2].x = args[1].x + 1
    /\ args[2].y = args[1].y

\* C32: createBounding is never called while the selection set is empty,
\* along any sequence of add, remove, clear, wheel and pointer events: no
\* operation has made such a call, and the container it left holds proxies.
C32_NoRebuildWhenEmpty ==
    /\ calls.createBoundingEmpty = 0
    /\ bounding.set => bounding.children # <<>>

\* remove() has just emptied a set that had a container built for it
\* earlier: the handle was refreshed and createBounding was not called
C32_Witness ==
    /\ lastOp.op = "remove"
    /\ nodes = <<>>
    /\ calls.attachTo = 1
    /\ calls.createBounding = 0
    /\ bounding.set

\* C35: at most one container is alive in the working layer at any time:
\* every rebuild destroys the previous one before it adds the new one, so
\* drag-move, wheel and click events never accumulate containers.
C35_OneContainer ==
    bounding.alive <= 1

\* the second frame of a drag of a selection of two: the container has been
\* rebuilt once more and one is alive
C35_Witness ==
    /\ lastOp.op = "dragmove"
    /\ dragFrames = 2
    /\ Len(nodes) = 2
    /\ calls.createBounding = 1
    /\ bounding.alive = 1

\* the fields the branches of decompose set are all zero
ZeroFields(v) ==
    /\ v.rotation = Whole(0)
    /\ v.scaleX = Whole(0)
    /\ v.scaleY = Whole(0)
    /\ v.skewX = Whole(0)
    /\ v.skewY = Whole(0)

\* C33: for a matrix with a = b = c = d = 0 decompose returns rotation,
\* scaleX, scaleY, skewX and skewY equal to zero and the translation
\* ((e - x) / scaleX, (f - y) / scaleY) of the frame; and exactly one branch
\* applies to every matrix: with a or b non-zero scaleX is the length of
\* (a, b), positive; else with c or d non-zero scaleX is zero and scaleY is
\* the length of (c, d), positive; else the fields are zero.
C33_ZeroMatrix ==
    result.fn = "decompose" =>
        LET m == args[1]
            layer == args[2]
            v == result.value
        IN /\ v.x = Rat(m[5] - layer.x, layer.scaleX)
           /\ v.y = Rat(m[6] - layer.y, layer.scaleY)
           /\ IF m[1] # 0 \/ m[2] # 0
              THEN /\ v.scaleX = Rat(Abs(m[1]) + Abs(m[2]), layer.scaleX)
                   /\ v.scaleX.n > 0
              ELSE IF m[3] # 0 \/ m[4] # 0
                   THEN /\ v.scaleX = Whole(0)
                        /\ v.scaleY = Rat(Abs(m[3]) + Abs(m[4]), layer.scaleY)
                        /\ v.scaleY.n > 0
                   ELSE ZeroFields(v)

\* the matrix of zeros with e = 1, f = 0 in a layer at (1, -1) zoomed by 2:
\* translation (0, 1/2), the other fields zero
C33_Witness ==
    /\ result.fn = "decompose"
    /\ \A i \in 1..4 : args[1][i] = 0
    /\ args[1][5] = 1
    /\ args[1][6] = 0
    /\ args[2] = [x |-> 1, y |-> 0 - 1, scaleX |-> 2, scaleY |-> 2]
    /\ result.value.x = Whole(0)
    /\ result.value.y = Rat(1, 2)
    /\ ZeroFields(result.value)

\* C34: at most one handle exists at any time: a handle is created only
\* when none exists, never while a previous one is alive, and clear()
\* leaves none.
C34_OneHandle ==
    /\ calls.createTransformerAlive = 0
    /\ calls.createTransformer <= calls.destroyTransformer + 1
    /\ lastOp.op = "clear" => ~ transformer.alive

\* clear() has just destroyed the handle of a selection of two, to which
\* the second add() had brought no new handle
C34_Witness ==
    /\ lastOp.op = "clear"
    /\ calls.destroyTransformer = 1
    /\ ~ transformer.alive
    /\ nodes = <<>>
    /\ bounding.set

\* C36: within add(e) the set is updated, then the notification is
\* delivered, then the handle is created when none exists and attached: the
\* listener observes the set with e in it, and, when the call creates the
\* handle, no handle yet; in the transition from none to one selected entity
\* it observes a non-empty set and no handle.
C36_AddOrder ==
    (lastOp.op = "add" /\ emitted # <<>>) =>
        /\ Len(emitted) = 1
        /\ emitted[1].op = "add"
        /\ emitted[1].nodes = nodes
        /\ lastOp.node \in Range(emitted[1].nodes)
        /\ emitted[1].transformer <=> calls.createTransformer = 0
        /\ transformer.alive
        /\ calls.attachTo = 1

\* add(2) on the empty set: the listener saw <<2>> and no handle; the
\* handle exists on entity 2 when the call returns
C36_Witness ==
    /\ lastOp = Op("add", 2, FALSE)
    /\ emitted = <<[op |-> "add", node |-> 2, nodes |-> <<2>>, transformer |-> FALSE]>>
    /\ calls.createTransformer = 1
    /\ transformer = [alive |-> TRUE, node |-> EntityNode(2)]

\* C37: a drag-move frame changes the position of selected entities only:
\* the entities outside the selection set keep their position (the dragged
\* one apart, which the renderer moves), the dragged entity moves by the step
\* of the renderer and not a second time, every other selected entity moves
\* by that step, the selection set is unchanged and no notification is emitted.
C37_DragMoveFrame ==
    [][lastOp'.op = "dragmove" =>
         /\ nodes' = nodes
         /\ emitted' = <<>>
         /\ \E d \in Deltas :
               \A e \in Entities :
                   attrs'[e] = IF e = dragTarget \/ e \in Range(nodes)
                               THEN Point(attrs[e].x + d.x, attrs[e].y + d.y)
                               ELSE attrs[e]]_vars

\* a frame of the drag of entity 1, selected with entity 2: both have
\* moved, entity 3, not selected, stands where it stood
C37_Witness ==
    /\ lastOp = Op("dragmove", 1, FALSE)
    /\ Range(nodes) = {1, 2}
    /\ attrs[1] # InitAttrs[1]
    /\ attrs[2] # InitAttrs[2]
    /\ attrs[3] = InitAttrs[3]
    /\ emitted = <<>>

\* C38: the constructor called with a list of nodes leaves a selection set
\* that holds those nodes, each once however often the list names it, with
\* no notification emitted and no handle created or attached.
C38_ConstructorSeeds ==
    lastOp.op = "new" =>
        /\ Range(nodes) = Range(args)
        /\ Cardinality(Range(nodes)) = Len(nodes)
        /\ emitted = <<>>
        /\ transformer = NullTransformer
        /\ ~ bounding.set
        /\ calls = NoCalls

\* new KonvaSelection(layer, [e2, e1, e2]): two members, no handle
C38_Witness ==
    /\ lastOp.op = "new"
    /\ args = <<2, 1, 2>>
    /\ nodes = <<2, 1>>
    /\ ~ transformer.alive

====
